---- MODULE Spec2Model ----
(***************************************************************************)
(* Model of the spend-report scripts.                                      *)
(*                                                                         *)
(*   src/report.js (lines 214-409): the folder-wide spreadsheet report,    *)
(*     main -> loadAndCategorizeCSV -> merge -> generateXlsxReport, with   *)
(*     one bucket per booking month (per-row period extraction).           *)
(*   src/unnamed/part_000: the per-file text report,                       *)
(*     generateReportsFromFolder -> loadAndCategorizeCSV, with the period  *)
(*     taken from the preamble of the file.                                *)
(*                                                                         *)
(* JavaScript strings are sequences of one-character strings.  Numbers are *)
(* exact decimals [m, e] standing for m * 10^-e, kept normalised.          *)
(***************************************************************************)
EXTENDS Integers, Sequences, FiniteSets, TLC

VARIABLES
    script,              \* which program runs: "report" or "folder"
    groceryKeywords,     \* keywords.js, injected configuration
    fixedCostsKeywords,
    excludeKeywords,
    pc,                  \* position of the running program
    fileNo,              \* number of files the for-loop has taken so far
    rowsRead,            \* number of 'data' events delivered in this run
    categoriesPerMonth,  \* report.js: result of the current loadAndCategorizeCSV
    allCategories,       \* report.js: main's accumulator
    categories,          \* part_000: categories of the current file
    excludedEntries,     \* part_000: excluded entries of the current file
    reportMonthYear,     \* part_000: period label of the current file
    reportFilename,      \* part_000: period key of the current file
    output,              \* files written: name -> content
    row,                 \* the row a 'data' event is delivering
    value,               \* parseEuro: argument
    number,              \* parseEuro: returned number
    lines,               \* header location: content.split(/\r?\n/)
    isDKB,               \* header location: format flag
    headerIndex          \* header location: lines.findIndex(...)

vars == <<script, groceryKeywords, fixedCostsKeywords, excludeKeywords, pc,
          fileNo, rowsRead, categoriesPerMonth, allCategories,
          categories, excludedEntries, reportMonthYear, reportFilename,
          output, row,
          value, number, lines, isDKB, headerIndex>>

(***************************************************************************)
(* Bounds of the model.                                                    *)
(***************************************************************************)
MaxFiles == 2      \* .csv files readdirSync returns
MaxRows == 2       \* rows streamed in one run
MaxHead == 2       \* lines of a file up to its header, in a batch run
MaxLen == 3        \* length of an arbitrary amount string
MaxLines == 6      \* lines of a file whose header is located

(***************************************************************************)
(* JavaScript values.                                                      *)
(***************************************************************************)
\* undefined / null: a missing cell, a missing column, an absent argument.
Undefined == <<"undefined">>

\* !v for a string-or-undefined v.
Falsy(v) == v = Undefined \/ v = <<>>

\* the result of parseFloat when no prefix of the string is a number
NaN == [m |-> 0, e |-> 0 - 1]

Max(a, b) == IF a >= b THEN a ELSE b

RECURSIVE Pow10(_)
Pow10(n) == IF n = 0 THEN 1 ELSE 10 * Pow10(n - 1)

RECURSIVE Norm(_)
Norm(d) == IF d.m = 0 THEN [m |-> 0, e |-> 0]
           ELSE IF d.e > 0 /\ d.m % 10 = 0
                THEN Norm([m |-> d.m \div 10, e |-> d.e - 1])
                ELSE d

Dec(m, e) == Norm([m |-> m, e |-> e])

Zero == Dec(0, 0)

\* a + b on numbers
Plus(a, b) ==
    LET e == Max(a.e, b.e)
    IN  Dec(a.m * Pow10(e - a.e) + b.m * Pow10(e - b.e), e)

(***************************************************************************)
(* String helpers of the JavaScript runtime.                               *)
(***************************************************************************)
Digits == {"0", "1", "2", "3", "4", "5", "6", "7", "8", "9"}

DigitVal(c) ==
    CASE c = "0" -> 0 [] c = "1" -> 1 [] c = "2" -> 2 [] c = "3" -> 3
      [] c = "4" -> 4 [] c = "5" -> 5 [] c = "6" -> 6 [] c = "7" -> 7
      [] c = "8" -> 8 [] c = "9" -> 9

\* /\s/
IsSpace(c) == c \in {" ", "\t"}

\* String.prototype.replace(/\s/g, "")
StripSpaces(s) == SelectSeq(s, LAMBDA c : ~IsSpace(c))

\* String.prototype.replace(/\./g, "")
StripDots(s) == SelectSeq(s, LAMBDA c : c # ".")

\* String.prototype.replace(/[^0-9.-]/g, "")
StripNonNumeric(s) == SelectSeq(s, LAMBDA c : c \in Digits \union {".", "-"})

\* index of the first occurrence of character c in s, 0 when there is none
RECURSIVE IndexOf(_, _, _)
IndexOf(s, c, i) ==
    IF i > Len(s) THEN 0
    ELSE IF s[i] = c THEN i ELSE IndexOf(s, c, i + 1)

\* String.prototype.replace(c, r) with a string pattern: first occurrence only
ReplaceFirst(s, c, r) ==
    LET i == IndexOf(s, c, 1)
    IN  IF i = 0 THEN s
        ELSE SubSeq(s, 1, i - 1) \o r \o SubSeq(s, i + 1, Len(s))

\* number of leading digits of s from position i on
RECURSIVE DigitRun(_, _)
DigitRun(s, i) ==
    IF i <= Len(s) /\ s[i] \in Digits THEN 1 + DigitRun(s, i + 1) ELSE 0

\* value of the digit string s[i .. j] read after the prefix value acc
RECURSIVE DigitsValue(_, _, _, _)
DigitsValue(s, i, j, acc) ==
    IF i > j THEN acc
    ELSE DigitsValue(s, i + 1, j, 10 * acc + DigitVal(s[i]))

\* parseFloat on a string over [0-9.-]: the longest prefix that is a decimal
\* literal (sign, digits, optional fraction), NaN when no prefix is one.
parseFloat(s) ==
    LET neg == Len(s) >= 1 /\ s[1] = "-"
        st  == IF neg THEN 2 ELSE 1
        ni  == DigitRun(s, st)
        dot == st + ni <= Len(s) /\ s[st + ni] = "."
        nf  == IF dot THEN DigitRun(s, st + ni + 1) ELSE 0
        ip  == DigitsValue(s, st, st + ni - 1, 0)
        all == DigitsValue(s, st + ni + 1, st + ni + nf, ip)
        mag == IF nf > 0 THEN all ELSE ip
    IN  IF ni = 0 /\ nf = 0 THEN NaN
        ELSE Dec(IF neg THEN 0 - mag ELSE mag, nf)

(***************************************************************************)
(* parseEuro, src/report.js:228-238.                                       *)
(***************************************************************************)
\* report.js:230-235
cleaned(v) ==
    StripNonNumeric(
        ReplaceFirst(
            StripDots(ReplaceFirst(StripSpaces(v), "€", <<>>)),
            ",", <<".">>))

\* parseEuro that keeps the thousands separators
parseEuroNoThousands(v) ==
    IF Falsy(v) THEN Zero
    ELSE LET c == StripNonNumeric(
                      ReplaceFirst(
                          ReplaceFirst(StripSpaces(v), "€", <<>>),
                          ",", <<".">>))
             n == parseFloat(c)
         IN  IF n = NaN THEN Zero ELSE n

\* report.js:228-238

parseEuro(v) ==
    IF Falsy(v) THEN Zero
    ELSE LET n == parseFloat(cleaned(v))
         IN  IF n = NaN THEN Zero ELSE n

(***************************************************************************)
(* Keyword matching: keywordRegexList and regex.test, for keywords that    *)
(* are plain text (no regular-expression metacharacters): a                *)
(* case-insensitive substring search.                                      *)
(***************************************************************************)
LowerChar(c) ==
    CASE c = "A" -> "a" [] c = "B" -> "b" [] c = "C" -> "c" [] c = "D" -> "d"
      [] c = "E" -> "e" [] c = "F" -> "f" [] c = "G" -> "g" [] c = "H" -> "h"
      [] c = "I" -> "i" [] c = "J" -> "j" [] c = "K" -> "k" [] c = "L" -> "l"
      [] c = "M" -> "m" [] c = "N" -> "n" [] c = "O" -> "o" [] c = "P" -> "p"
      [] c = "Q" -> "q" [] c = "R" -> "r" [] c = "S" -> "s" [] c = "T" -> "t"
      [] c = "U" -> "u" [] c = "V" -> "v" [] c = "W" -> "w" [] c = "X" -> "x"
      [] c = "Y" -> "y" [] c = "Z" -> "z" [] OTHER -> c

Lower(s) == [i \in 1..Len(s) |-> LowerChar(s[i])]

Contains(hay, needle) ==
    \E i \in 0..(Len(hay) - Len(needle)) :
        SubSeq(hay, i + 1, i + Len(needle)) = needle

\* new RegExp(kw, "i").test(text)
RegexTest(kw, text) == Contains(Lower(text), Lower(kw))

\* keywordRegexList(keywords).some((regex) => regex.test(text))
SomeMatch(keywords, text) ==
    \E i \in 1..Len(keywords) : RegexTest(keywords[i], text)

(***************************************************************************)
(* extractMonthYear, src/report.js:244-247.                                *)
(***************************************************************************)
\* String.prototype.split(sep) for a one-character separator
RECURSIVE Split(_, _)
Split(s, sep) ==
    LET i == IndexOf(s, sep, 1)
    IN  IF i = 0 THEN <<s>>
        ELSE <<SubSeq(s, 1, i - 1)>> \o Split(SubSeq(s, i + 1, Len(s)), sep)

\* a destructured array element, printed by a template literal
Part(parts, i) ==
    IF i <= Len(parts) THEN parts[i]
    ELSE <<"u", "n", "d", "e", "f", "i", "n", "e", "d">>

\* the key built from the day instead of the month
extractMonthYearByDay(dateStr) ==
    LET parts == Split(dateStr, ".")
    IN  Part(parts, 3) \o <<"-">> \o Part(parts, 1)

\* report.js:244-247
extractMonthYear(dateStr) ==
    LET parts == Split(dateStr, ".")
    IN  Part(parts, 3) \o <<"-">> \o Part(parts, 2)

(***************************************************************************)
(* Header location, src/report.js:253-259 and src/unnamed/part_000:58-64.  *)
(* A line of a file is abstracted to the column names its text contains    *)
(* (what line.includes answers) and to the first date of a date-range      *)
(* token in it (what the preamble regex captures).                         *)
(***************************************************************************)
NoRange == [month |-> "", year |-> ""]

Line(names, range) == [names |-> names, range |-> range]

includes(line, name) == name \in line.names

\* Array.prototype.findIndex, given the answers of the predicate line by
\* line: 0-based, -1 when no line satisfies it
RECURSIVE FindFrom(_, _)
FindFrom(hits, i) ==
    IF i > Len(hits) THEN 0 - 1
    ELSE IF hits[i] THEN i - 1 ELSE FindFrom(hits, i + 1)

findIndex(hits) == FindFrom(hits, 1)

\* report.js:253
IsDKB(ls) == \E i \in 1..Len(ls) : includes(ls[i], "Zahlungsempfänger*in")

\* the first line that contains every required column name of the format
FirstLineWithAllNames(ls) ==
    LET dkb == IsDKB(ls)
        P(line) == IF dkb
                   THEN /\ includes(line, "Zahlungsempfänger*in")
                        /\ includes(line, "Betrag (€)")
                        /\ includes(line, "Buchungsdatum")
                   ELSE includes(line, "Umsatz") /\ includes(line, "Buchungstag")
    IN  findIndex([i \in 1..Len(ls) |-> P(ls[i])])

\* report.js:254-258
HeaderIndex(ls) ==
    LET dkb == IsDKB(ls)
        P(line) == IF dkb
                   THEN /\ includes(line, "Zahlungsempfänger*in")
                        /\ includes(line, "Betrag (€)")
                   ELSE includes(line, "Umsatz") /\ includes(line, "Buchungstag")
    IN  findIndex([i \in 1..Len(ls) |-> P(ls[i])])

\* part_000:58-61
FolderHeaderIndex(ls) ==
    LET P(line) == /\ includes(line, "Zahlungsempfänger*in")
                   /\ includes(line, "Betrag (€)")
    IN  findIndex([i \in 1..Len(ls) |-> P(ls[i])])

\* part_000:29-48
MonthNames ==
    [m \in {"01", "02", "03", "04", "05", "06",
            "07", "08", "09", "10", "11", "12"} |->
        CASE m = "01" -> "Januar" [] m = "02" -> "Februar" [] m = "03" -> "März"
          [] m = "04" -> "April" [] m = "05" -> "Mai" [] m = "06" -> "Juni"
          [] m = "07" -> "Juli" [] m = "08" -> "August"
          [] m = "09" -> "September" [] m = "10" -> "Oktober"
          [] m = "11" -> "November" [] m = "12" -> "Dezember"]

extractMonthYearFromLines(ls) ==
    LET P(line) == line.range # NoRange
        i == findIndex([j \in 1..Len(ls) |-> P(ls[j])])
    IN  IF i = 0 - 1
        THEN [label |-> <<"Unbekannt">>, filename |-> <<"unbekannt">>]
        ELSE LET r == ls[i + 1].range
             IN  [label |-> <<MonthNames[r.month], r.year>>,
                  filename |-> <<r.year, "-", r.month>>]

(***************************************************************************)
(* The row handler of report.js, src/report.js:268-339.                    *)
(* A bucket keeps, per category, the match list and the running total; the *)
(* keyword regex lists stored beside them are copies of the configuration. *)
(***************************************************************************)
EmptyCategory == [matches |-> <<>>, total |-> Zero]

\* report.js:283-296
NewMonth == [groceries  |-> EmptyCategory,
             fixedCosts |-> EmptyCategory,
             misc       |-> EmptyCategory,
             excluded   |-> <<>>]

CategoryNames == {"groceries", "fixedCosts", "misc"}

\* row["Verwendungszweck"] || "-"
UsageOf(r) == IF Falsy(r.usage) THEN <<"-">> ELSE r.usage

\* the admission test without the booking date
InadmissibleNoDate(r) == Falsy(r.amountStr) \/ Falsy(r.recipient)

\* report.js:276
Inadmissible(r) ==
    Falsy(r.amountStr) \/ Falsy(r.bookingDate) \/ Falsy(r.recipient)

\* report.js:279
NotExpense(r) == parseEuro(r.amountStr).m >= 0

\* report.js:301
IsExcluded(exclude, r) == SomeMatch(exclude, r.recipient)

\* the category test that prefers fixedCosts
CategoryOfLast(grocery, fixed, recipient) ==
    IF SomeMatch(fixed, recipient) THEN "fixedCosts"
    ELSE IF SomeMatch(grocery, recipient) THEN "groceries"
    ELSE "misc"

\* report.js:312-338: the first of groceries, fixedCosts whose keywords
\* match, misc when neither does
CategoryOf(grocery, fixed, recipient) ==
    IF SomeMatch(grocery, recipient) THEN "groceries"
    ELSE IF SomeMatch(fixed, recipient) THEN "fixedCosts"
    ELSE "misc"

\* report.js:302-308
ExcludedEntry(r) ==
    [bookingDate |-> r.bookingDate,
     recipient   |-> r.recipient,
     usage       |-> UsageOf(r),
     raw         |-> r.amountStr,
     parsed      |-> parseEuro(r.amountStr)]

\* report.js:318-323, 331-336
MatchEntry(r) ==
    [bookingDate |-> r.bookingDate,
     recipient   |-> r.recipient,
     raw         |-> r.amountStr,
     parsed      |-> parseEuro(r.amountStr)]

\* a push that forgets the total
PushNoTotal(category, entry) ==
    [matches |-> Append(category.matches, entry),
     total   |-> category.total]

\* a push that puts the entry at the head of the list
PushFront(category, entry) ==
    [matches |-> <<entry>> \o category.matches,
     total   |-> Plus(category.total, entry.parsed)]

\* category.matches.push(entry); category.total += parsedAmount
Push(category, entry) ==
    [matches |-> Append(category.matches, entry),
     total   |-> Plus(category.total, entry.parsed)]

\* report.js:281-297
WithMonth(cpm, monthKey) ==
    IF monthKey \in DOMAIN cpm THEN cpm ELSE cpm @@ (monthKey :> NewMonth)

\* the callback with the exclusion test after the category test
OnDataExcludeLast(cpm, grocery, fixed, exclude, r) ==
    IF Inadmissible(r) \/ NotExpense(r) THEN cpm
    ELSE LET monthKey == extractMonthYear(r.bookingDate)
             c        == WithMonth(cpm, monthKey)
             name     == CategoryOf(grocery, fixed, r.recipient)
         IN  IF name # "misc"
             THEN [c EXCEPT ![monthKey][name] = Push(@, MatchEntry(r))]
             ELSE IF IsExcluded(exclude, r)
                  THEN [c EXCEPT ![monthKey].excluded =
                                     Append(@, ExcludedEntry(r))]
                  ELSE [c EXCEPT ![monthKey].misc = Push(@, MatchEntry(r))]

\* report.js:268-339: the whole 'data' callback, as the value of
\* categoriesPerMonth after the row
OnData(cpm, grocery, fixed, exclude, r) ==
    IF Inadmissible(r) THEN cpm
    ELSE IF NotExpense(r) THEN cpm
    ELSE LET monthKey == extractMonthYear(r.bookingDate)
             c        == WithMonth(cpm, monthKey)
         IN  IF IsExcluded(exclude, r)
             THEN [c EXCEPT ![monthKey].excluded =
                                Append(@, ExcludedEntry(r))]
             ELSE LET name == CategoryOf(grocery, fixed, r.recipient)
                  IN  [c EXCEPT ![monthKey][name] = Push(@, MatchEntry(r))]

(***************************************************************************)
(* main's merge of one file's result, src/report.js:391-400.               *)
(***************************************************************************)
\* a merge that puts the file's entries first
MergeCategoryReversed(a, b) ==
    [matches |-> b.matches \o a.matches, total |-> Plus(a.total, b.total)]

\* report.js:395-396
MergeCategory(a, b) ==
    [matches |-> a.matches \o b.matches, total |-> Plus(a.total, b.total)]

\* report.js:394-398
MergeMonth(a, data) ==
    [groceries  |-> MergeCategory(a.groceries, data.groceries),
     fixedCosts |-> MergeCategory(a.fixedCosts, data.fixedCosts),
     misc       |-> MergeCategory(a.misc, data.misc),
     excluded   |-> a.excluded \o data.excluded]

\* report.js:391-400
MergeAll(all, cats) ==
    [month \in DOMAIN all \union DOMAIN cats |->
        IF month \notin DOMAIN cats THEN all[month]
        ELSE IF month \notin DOMAIN all THEN cats[month]
        ELSE MergeMonth(all[month], cats[month])]

(***************************************************************************)
(* The row handler and the report of part_000,                             *)
(* src/unnamed/part_000:68-137 and 161-191.                                *)
(***************************************************************************)
\* part_000:68-84
NewCategories == [groceries  |-> EmptyCategory,
                  fixedCosts |-> EmptyCategory,
                  misc       |-> EmptyCategory]

\* part_000:96
FolderInadmissible(r) == Falsy(r.recipient) \/ Falsy(r.amountStr)

\* part_000:101-106
FolderExcludedEntry(r) ==
    [recipient |-> r.recipient,
     usage     |-> UsageOf(r),
     raw       |-> r.amountStr,
     parsed    |-> parseEuro(r.amountStr)]

\* part_000:118-122, 130-134
FolderMatchEntry(r) ==
    [recipient |-> r.recipient,
     raw       |-> r.amountStr,
     parsed    |-> parseEuro(r.amountStr)]

\* part_000:100-108: the excluded list after the row
FolderExcluded(excl, exclude, r) ==
    IF ~FolderInadmissible(r) /\ IsExcluded(exclude, r)
    THEN Append(excl, FolderExcludedEntry(r))
    ELSE excl

\* part_000:110-136: the categories after the row
FolderCategories(cat, grocery, fixed, exclude, r) ==
    IF FolderInadmissible(r) THEN cat
    ELSE IF IsExcluded(exclude, r) THEN cat
    ELSE IF NotExpense(r) THEN cat
    ELSE LET name == CategoryOf(grocery, fixed, r.recipient)
         IN  [cat EXCEPT ![name] = Push(@, FolderMatchEntry(r))]

\* part_000:161-188: what the written report shows
ReportText(label, cat, excl) ==
    [label      |-> label,
     categories |-> cat,
     totalSum   |-> Plus(Plus(cat.groceries.total, cat.fixedCosts.total),
                         cat.misc.total),
     excluded   |-> excl]

(***************************************************************************)
(* Inputs.                                                                 *)
(***************************************************************************)
\* keywords.js: the configurations the runs are checked under
KeywordConfigs ==
    { [grocery |-> << <<"r", "e", "w", "e">> >>,
       fixed   |-> << <<"m", "i", "e", "t", "e">> >>,
       exclude |-> << <<"p", "a", "y", "p", "a", "l">> >>],
      [grocery |-> << <<"e", "d", "e", "k", "a">>, <<"M", "a", "r", "k", "t">> >>,
       fixed   |-> << <<"r", "e", "w", "e">>, <<"m", "i", "e", "t", "e">> >>,
       exclude |-> << >>] }

Recipients ==
    { Undefined,
      <<"R", "E", "W", "E">>,
      <<"R", "e", "w", "e", " ", "M", "a", "r", "k", "t">>,
      <<"P", "a", "y", "P", "a", "l", " ", "R", "e", "w", "e">>,
      <<"K", "i", "n", "o">> }

AmountStrs ==
    { Undefined,
      <<"-", "1", "0", ",", "0", "0">>,
      <<"-", "5", ",", "0", "0", " ", "€">>,
      <<"3", ",", "0", "0">>,
      <<"a", "b", "c">> }

BookingDates ==
    { Undefined,
      <<"0", "5", ".", "0", "5", ".", "2", "0", "2", "5">>,
      <<"1", "7", ".", "0", "6", ".", "2", "0", "2", "5">> }

\* no row is being delivered
NoRow == [recipient |-> Undefined, amountStr |-> Undefined,
          bookingDate |-> Undefined, usage |-> Undefined]

Rows ==
    [recipient : Recipients, amountStr : AmountStrs,
     bookingDate : BookingDates, usage : {Undefined}]

\* lines of a file up to its header
HeadLines ==
    { Line({}, NoRange),
      Line({}, [month |-> "05", year |-> "2025"]),
      Line({"Zahlungsempfänger*in", "Betrag (€)", "Buchungsdatum"}, NoRange),
      Line({"Umsatz", "Buchungstag"}, NoRange) }

SeqsUpTo(S, n) == UNION { [1..k -> S] : k \in 0..n }

FileHeads == SeqsUpTo(HeadLines, MaxHead)

(***************************************************************************)
(* The run of report.js: main, src/report.js:380-406.                      *)
(***************************************************************************)
HeaderVars == <<lines, isDKB, headerIndex, row>>
EuroVars == <<value, number>>
ConfigVars == <<script, groceryKeywords, fixedCostsKeywords, excludeKeywords>>
ReportVars == <<categoriesPerMonth, allCategories>>
FolderVars == <<categories, excludedEntries, reportMonthYear, reportFilename>>

Init ==
    /\ script \in {"report", "folder"}
    /\ \E k \in KeywordConfigs :
          /\ groceryKeywords = k.grocery
          /\ fixedCostsKeywords = k.fixed
          /\ excludeKeywords = k.exclude
    /\ pc = "loop"
    /\ fileNo = 0
    /\ rowsRead = 0
    /\ categoriesPerMonth = <<>>
    /\ allCategories = <<>>
    /\ categories = NewCategories
    /\ excludedEntries = <<>>
    /\ reportMonthYear = <<>>
    /\ reportFilename = <<>>
    /\ output = <<>>
    /\ row = NoRow
    /\ value = Undefined
    /\ number = Zero
    /\ lines = <<>>
    /\ isDKB = FALSE
    /\ headerIndex = 0

\* report.js:389-390 and 249-262: the loop takes the next file and
\* loadAndCategorizeCSV reads it; without a header line it throws, and the
\* error leaves main, which catches nothing
ReportLoad ==
    /\ script = "report" /\ pc = "loop" /\ fileNo < MaxFiles
    /\ \E ls \in FileHeads :
          /\ fileNo' = fileNo + 1
          /\ IF HeaderIndex(ls) = 0 - 1
             THEN pc' = "crashed" /\ UNCHANGED categoriesPerMonth
             ELSE pc' = "stream" /\ categoriesPerMonth' = <<>>
    /\ UNCHANGED <<ConfigVars, rowsRead, allCategories, FolderVars, output,
                   EuroVars, HeaderVars>>

\* report.js:268-339: one 'data' event
ReportData ==
    /\ script = "report" /\ pc = "stream" /\ rowsRead < MaxRows
    /\ \E r \in Rows :
          categoriesPerMonth' =
              OnData(categoriesPerMonth, groceryKeywords, fixedCostsKeywords,
                     excludeKeywords, r)
    /\ rowsRead' = rowsRead + 1
    /\ UNCHANGED <<ConfigVars, pc, fileNo, allCategories, FolderVars, output,
                   EuroVars, HeaderVars>>

\* report.js:340-344 and 391-400: the stream ends, the result is returned
\* and merged into allCategories
ReportMerge ==
    /\ script = "report" /\ pc = "stream"
    /\ allCategories' = MergeAll(allCategories, categoriesPerMonth)
    /\ pc' = "loop"
    /\ UNCHANGED <<ConfigVars, fileNo, rowsRead, categoriesPerMonth,
                   FolderVars, output, EuroVars, HeaderVars>>

\* report.js:403-405 and 347-378
ReportGenerate ==
    /\ script = "report" /\ pc = "loop" /\ fileNo = MaxFiles
    /\ output' = (<<"monatsbericht.xlsx">> :> allCategories)
    /\ pc' = "done"
    /\ UNCHANGED <<ConfigVars, fileNo, rowsRead, ReportVars, FolderVars,
                   EuroVars, HeaderVars>>

(***************************************************************************)
(* The run of part_000: generateReportsFromFolder,                         *)
(* src/unnamed/part_000:150-197.                                           *)
(***************************************************************************)
\* part_000:153-159 and 50-87: a file without a header line rejects, and the
\* catch of the loop body logs the error and goes on
FolderLoad ==
    /\ script = "folder" /\ pc = "loop" /\ fileNo < MaxFiles
    /\ \E ls \in FileHeads :
          /\ fileNo' = fileNo + 1
          /\ IF FolderHeaderIndex(ls) = 0 - 1
             THEN pc' = "loop" /\ UNCHANGED FolderVars
             ELSE /\ pc' = "stream"
                  /\ categories' = NewCategories
                  /\ excludedEntries' = <<>>
                  /\ reportMonthYear' = extractMonthYearFromLines(ls).label
                  /\ reportFilename' = extractMonthYearFromLines(ls).filename
    /\ UNCHANGED <<ConfigVars, rowsRead, ReportVars, output, EuroVars,
                   HeaderVars>>

\* part_000:91-137: one 'data' event
FolderData ==
    /\ script = "folder" /\ pc = "stream" /\ rowsRead < MaxRows
    /\ \E r \in Rows :
          /\ categories' =
                 FolderCategories(categories, groceryKeywords,
                                  fixedCostsKeywords, excludeKeywords, r)
          /\ excludedEntries' =
                 FolderExcluded(excludedEntries, excludeKeywords, r)
    /\ rowsRead' = rowsRead + 1
    /\ UNCHANGED <<ConfigVars, pc, fileNo, ReportVars, reportMonthYear,
                   reportFilename, output, EuroVars, HeaderVars>>

\* part_000:138-145 and 161-192: the stream ends and the report is written;
\* the results are local to the loop body and end with it
FolderWrite ==
    /\ script = "folder" /\ pc = "stream"
    /\ LET outputFile == reportFilename \o <<"_report.txt">>
           text == ReportText(reportMonthYear, categories, excludedEntries)
       IN  output' = [f \in DOMAIN output \union {outputFile} |->
                         IF f = outputFile THEN text ELSE output[f]]
    /\ pc' = "loop"
    /\ categories' = NewCategories
    /\ excludedEntries' = <<>>
    /\ reportMonthYear' = <<>>
    /\ reportFilename' = <<>>
    /\ UNCHANGED <<ConfigVars, fileNo, rowsRead, ReportVars, EuroVars,
                   HeaderVars>>

\* part_000:153: the loop is over
FolderDone ==
    /\ script = "folder" /\ pc = "loop" /\ fileNo = MaxFiles
    /\ pc' = "done"
    /\ UNCHANGED <<ConfigVars, fileNo, rowsRead, ReportVars, FolderVars,
                   output, EuroVars, HeaderVars>>

Next ==
    \/ ReportLoad
    \/ ReportData
    \/ ReportMerge
    \/ ReportGenerate
    \/ FolderLoad
    \/ FolderData
    \/ FolderWrite
    \/ FolderDone

Spec == Init /\ [][Next]_vars

(***************************************************************************)
(* The stream of one file whose header was found, with the row in flight:  *)
(* csv-parser emits a 'data' event, the handler of the script runs on it.  *)
(***************************************************************************)
InitStream ==
    /\ script \in {"report", "folder"}
    /\ \E k \in KeywordConfigs :
          /\ groceryKeywords = k.grocery
          /\ fixedCostsKeywords = k.fixed
          /\ excludeKeywords = k.exclude
    /\ pc = "stream"
    /\ fileNo = 1
    /\ rowsRead = 0
    /\ categoriesPerMonth = <<>>
    /\ allCategories = <<>>
    /\ categories = NewCategories
    /\ excludedEntries = <<>>
    /\ reportMonthYear = <<"Unbekannt">>
    /\ reportFilename = <<"unbekannt">>
    /\ output = <<>>
    /\ row = NoRow
    /\ value = Undefined
    /\ number = Zero
    /\ lines = <<>>
    /\ isDKB = FALSE
    /\ headerIndex = 0

\* report.js:266-268, part_000:89-91: the parser emits the next row
StreamEmit ==
    /\ pc = "stream" /\ rowsRead < MaxRows
    /\ row' \in Rows
    /\ pc' = "data"
    /\ UNCHANGED <<ConfigVars, fileNo, rowsRead, ReportVars, FolderVars,
                   output, EuroVars, lines, isDKB, headerIndex>>

\* report.js:268-339
StreamReportData ==
    /\ script = "report" /\ pc = "data"
    /\ categoriesPerMonth' =
           OnData(categoriesPerMonth, groceryKeywords, fixedCostsKeywords,
                  excludeKeywords, row)
    /\ rowsRead' = rowsRead + 1
    /\ pc' = "stream"
    /\ UNCHANGED <<ConfigVars, fileNo, allCategories, FolderVars, output,
                   EuroVars, HeaderVars>>

\* part_000:91-137
StreamFolderData ==
    /\ script = "folder" /\ pc = "data"
    /\ categories' =
           FolderCategories(categories, groceryKeywords, fixedCostsKeywords,
                            excludeKeywords, row)
    /\ excludedEntries' = FolderExcluded(excludedEntries, excludeKeywords, row)
    /\ rowsRead' = rowsRead + 1
    /\ pc' = "stream"
    /\ UNCHANGED <<ConfigVars, fileNo, ReportVars, reportMonthYear,
                   reportFilename, output, EuroVars, HeaderVars>>

NextStream ==
    \/ StreamEmit
    \/ StreamReportData
    \/ StreamFolderData

SpecStream == InitStream /\ [][NextStream]_vars

(***************************************************************************)
(* parseEuro on its own: the argument is drawn, the call returns.          *)
(***************************************************************************)
EuroChars == {"-", "1", "5", ",", ".", " ", "€", "a"}

\* the amount strings of the documentation of parseEuro
NamedAmounts ==
    { <<"-", "1", "2", ",", "3", "4", " ", "€">>,
      <<"1", ".", "2", "3", "4", ",", "5", "6">>,
      <<"3", "4", "4">>,
      <<"-", "0", ",", "5", "0">>,
      <<"a", "b", "c">> }

EuroInputs ==
    {Undefined} \union NamedAmounts \union SeqsUpTo(EuroChars, MaxLen)

InitEuro ==
    /\ script = "parseEuro"
    /\ groceryKeywords = <<>>
    /\ fixedCostsKeywords = <<>>
    /\ excludeKeywords = <<>>
    /\ pc = "call"
    /\ fileNo = 0
    /\ rowsRead = 0
    /\ categoriesPerMonth = <<>>
    /\ allCategories = <<>>
    /\ categories = NewCategories
    /\ excludedEntries = <<>>
    /\ reportMonthYear = <<>>
    /\ reportFilename = <<>>
    /\ output = <<>>
    /\ row = NoRow
    /\ value \in EuroInputs
    /\ number = Zero
    /\ lines = <<>>
    /\ isDKB = FALSE
    /\ headerIndex = 0

\* report.js:228-238
ParseEuro ==
    /\ script = "parseEuro" /\ pc = "call"
    /\ number' = parseEuro(value)
    /\ pc' = "returned"
    /\ UNCHANGED <<ConfigVars, fileNo, rowsRead, ReportVars, FolderVars,
                   output, value, HeaderVars>>

NextEuro == ParseEuro

SpecEuro == InitEuro /\ [][NextEuro]_vars

(***************************************************************************)
(* The header location of loadAndCategorizeCSV on its own,                 *)
(* src/report.js:251-261.                                                  *)
(***************************************************************************)
LineKinds ==
    { Line({}, NoRange),
      Line({"Zahlungsempfänger*in"}, NoRange),
      Line({"Zahlungsempfänger*in", "Betrag (€)"}, NoRange),
      Line({"Zahlungsempfänger*in", "Betrag (€)", "Buchungsdatum"}, NoRange),
      Line({"Umsatz"}, NoRange),
      Line({"Umsatz", "Buchungstag"}, NoRange) }

InitHeader ==
    /\ script = "report"
    /\ groceryKeywords = <<>>
    /\ fixedCostsKeywords = <<>>
    /\ excludeKeywords = <<>>
    /\ pc = "read"
    /\ fileNo = 1
    /\ rowsRead = 0
    /\ categoriesPerMonth = <<>>
    /\ allCategories = <<>>
    /\ categories = NewCategories
    /\ excludedEntries = <<>>
    /\ reportMonthYear = <<>>
    /\ reportFilename = <<>>
    /\ output = <<>>
    /\ row = NoRow
    /\ value = Undefined
    /\ number = Zero
    /\ lines \in SeqsUpTo(LineKinds, MaxLines)
    /\ isDKB = FALSE
    /\ headerIndex = 0

\* report.js:253-259: the header is located, or the call throws
LocateHeader ==
    /\ pc = "read"
    /\ isDKB' = IsDKB(lines)
    /\ headerIndex' = HeaderIndex(lines)
    /\ pc' = IF HeaderIndex(lines) = 0 - 1 THEN "thrown" ELSE "located"
    /\ UNCHANGED <<ConfigVars, fileNo, rowsRead, ReportVars, FolderVars,
                   output, row, EuroVars, lines>>

NextHeader == LocateHeader

SpecHeader == InitHeader /\ [][NextHeader]_vars

(***************************************************************************)
(* The batch run with the content of each file in view: the file is read   *)
(* into lines, the header is located in them, and every row of the stream  *)
(* carries the cells of the columns its header line names.  The n-th row   *)
(* of the run in file f carries the amount "-f,n".                         *)
(***************************************************************************)
\* lines of a bank export up to and including its header line
FileLineKinds ==
    { Line({}, NoRange),
      Line({"Zahlungsempfänger*in", "Betrag (€)"}, NoRange),
      Line({"Zahlungsempfänger*in", "Betrag (€)", "Buchungsdatum"}, NoRange),
      Line({"Umsatz", "Umsatz in EUR", "Buchungstag", "Buchungstext"},
           NoRange) }

FileContents == SeqsUpTo(FileLineKinds, MaxHead)

DigitChar(n) == CHOOSE c \in Digits : DigitVal(c) = n

\* the amount cell of row n of the run, in file f
AmountOfRow(f, n) == <<"-", DigitChar(f), ",", DigitChar(n)>>

\* the recipient and booking date cells of a row
FileRows ==
    { [recipient   |-> <<"R", "E", "W", "E">>,
       bookingDate |-> <<"0", "5", ".", "0", "5", ".", "2", "0", "2", "5">>],
      [recipient   |-> <<"P", "a", "y", "P", "a", "l", " ", "R", "e", "w", "e">>,
       bookingDate |-> <<"0", "5", ".", "0", "5", ".", "2", "0", "2", "5">>],
      [recipient   |-> <<"R", "E", "W", "E">>,
       bookingDate |-> <<"1", "7", ".", "0", "6", ".", "2", "0", "2", "5">>] }

\* row[name] of csv-parser: the cell when the header line names the column
Cell(header, name, cell) == IF includes(header, name) THEN cell ELSE Undefined

\* report.js:268-273: the fields the handler reads from the row
ReportRow(header, dkb, recipient, amountStr, bookingDate) ==
    [recipient   |-> IF dkb
                     THEN Cell(header, "Zahlungsempfänger*in", recipient)
                     ELSE Cell(header, "Buchungstext", recipient),
     amountStr   |-> IF dkb
                     THEN Cell(header, "Betrag (€)", amountStr)
                     ELSE Cell(header, "Umsatz in EUR", amountStr),
     bookingDate |-> IF dkb
                     THEN Cell(header, "Buchungsdatum", bookingDate)
                     ELSE Cell(header, "Buchungstag", bookingDate),
     usage       |-> Undefined]

\* part_000:92-94: the fields the handler reads from the row
FolderRow(header, recipient, amountStr) ==
    [recipient   |-> Cell(header, "Zahlungsempfänger*in", recipient),
     amountStr   |-> Cell(header, "Betrag (€)", amountStr),
     bookingDate |-> Undefined,
     usage       |-> Undefined]

InitFiles ==
    /\ script \in {"report", "folder"}
    /\ \E k \in KeywordConfigs :
          /\ groceryKeywords = k.grocery
          /\ fixedCostsKeywords = k.fixed
          /\ excludeKeywords = k.exclude
    /\ pc = "loop"
    /\ fileNo = 0
    /\ rowsRead = 0
    /\ categoriesPerMonth = <<>>
    /\ allCategories = <<>>
    /\ categories = NewCategories
    /\ excludedEntries = <<>>
    /\ reportMonthYear = <<>>
    /\ reportFilename = <<>>
    /\ output = <<>>
    /\ row = NoRow
    /\ value = Undefined
    /\ number = Zero
    /\ lines = <<>>
    /\ isDKB = FALSE
    /\ headerIndex = 0

\* report.js:389-390 and 250-251, part_000:153-159 and 52-53: the loop takes
\* the next file and loadAndCategorizeCSV reads its lines
ReadFile ==
    /\ pc = "loop" /\ fileNo < MaxFiles
    /\ lines' \in FileContents
    /\ fileNo' = fileNo + 1
    /\ pc' = "read"
    /\ UNCHANGED <<ConfigVars, rowsRead, ReportVars, FolderVars, output,
                   EuroVars, isDKB, headerIndex, row>>

\* report.js:253-262: the header is located and the result object created,
\* or the call throws and the error leaves main
ReportLocate ==
    /\ script = "report" /\ pc = "read"
    /\ isDKB' = IsDKB(lines)
    /\ headerIndex' = HeaderIndex(lines)
    /\ IF HeaderIndex(lines) = 0 - 1
       THEN pc' = "crashed" /\ UNCHANGED categoriesPerMonth
       ELSE pc' = "stream" /\ categoriesPerMonth' = <<>>
    /\ UNCHANGED <<ConfigVars, fileNo, rowsRead, allCategories, FolderVars,
                   output, EuroVars, lines, row>>

\* report.js:340-344 and 391-400: the stream ends, the call returns its
\* result, and main merges it into allCategories
ReportReturn ==
    /\ script = "report" /\ pc = "stream"
    /\ allCategories' = MergeAll(allCategories, categoriesPerMonth)
    /\ categoriesPerMonth' = <<>>
    /\ lines' = <<>>
    /\ isDKB' = FALSE
    /\ headerIndex' = 0
    /\ pc' = "loop"
    /\ UNCHANGED <<ConfigVars, fileNo, rowsRead, FolderVars, output,
                   EuroVars, row>>

\* part_000:55-87: the header is located and the result objects created, or
\* the call rejects and the catch of the loop body goes on to the next file
FolderLocate ==
    /\ script = "folder" /\ pc = "read"
    /\ headerIndex' = FolderHeaderIndex(lines)
    /\ IF FolderHeaderIndex(lines) = 0 - 1
       THEN pc' = "loop" /\ UNCHANGED FolderVars
       ELSE /\ pc' = "stream"
            /\ categories' = NewCategories
            /\ excludedEntries' = <<>>
            /\ reportMonthYear' = extractMonthYearFromLines(lines).label
            /\ reportFilename' = extractMonthYearFromLines(lines).filename
    /\ UNCHANGED <<ConfigVars, fileNo, rowsRead, ReportVars, output, EuroVars,
                   lines, isDKB, row>>

\* report.js:268-339: one 'data' event
ReportRowData ==
    /\ script = "report" /\ pc = "stream" /\ rowsRead < MaxRows + 1
    /\ \E cells \in FileRows :
          LET r == ReportRow(lines[headerIndex + 1], isDKB, cells.recipient,
                             AmountOfRow(fileNo, rowsRead + 1),
                             cells.bookingDate)
          IN  categoriesPerMonth' =
                  OnData(categoriesPerMonth, groceryKeywords,
                         fixedCostsKeywords, excludeKeywords, r)
    /\ rowsRead' = rowsRead + 1
    /\ UNCHANGED <<ConfigVars, pc, fileNo, allCategories, FolderVars, output,
                   EuroVars, HeaderVars>>

\* part_000:91-137: one 'data' event
FolderRowData ==
    /\ script = "folder" /\ pc = "stream" /\ rowsRead < MaxRows + 1
    /\ \E cells \in FileRows :
          LET r == FolderRow(lines[headerIndex + 1], cells.recipient,
                             AmountOfRow(fileNo, rowsRead + 1))
          IN  /\ categories' =
                     FolderCategories(categories, groceryKeywords,
                                      fixedCostsKeywords, excludeKeywords, r)
              /\ excludedEntries' =
                     FolderExcluded(excludedEntries, excludeKeywords, r)
    /\ rowsRead' = rowsRead + 1
    /\ UNCHANGED <<ConfigVars, pc, fileNo, ReportVars, reportMonthYear,
                   reportFilename, output, EuroVars, HeaderVars>>

\* part_000:138-145 and 161-192: the stream ends, the call resolves, and
\* the report of the file is written
FolderReturn ==
    /\ script = "folder" /\ pc = "stream"
    /\ LET outputFile == reportFilename \o <<"_report.txt">>
           text == ReportText(reportMonthYear, categories, excludedEntries)
       IN  output' = [f \in DOMAIN output \union {outputFile} |->
                         IF f = outputFile THEN text ELSE output[f]]
    /\ pc' = "loop"
    /\ categories' = NewCategories
    /\ excludedEntries' = <<>>
    /\ reportMonthYear' = <<>>
    /\ reportFilename' = <<>>
    /\ lines' = <<>>
    /\ headerIndex' = 0
    /\ UNCHANGED <<ConfigVars, fileNo, rowsRead, ReportVars, EuroVars,
                   isDKB, row>>

NextFiles ==
    \/ ReadFile
    \/ ReportLocate
    \/ ReportRowData
    \/ ReportReturn
    \/ ReportGenerate
    \/ FolderLocate
    \/ FolderRowData
    \/ FolderReturn
    \/ FolderDone

SpecFiles == InitFiles /\ [][NextFiles]_vars

(***************************************************************************)
(* Properties.                                                             *)
(***************************************************************************)
RECURSIVE SumParsed(_)
SumParsed(matches) ==
    IF matches = <<>> THEN Zero
    ELSE Plus(SumParsed(SubSeq(matches, 1, Len(matches) - 1)),
              matches[Len(matches)].parsed)

TotalIsSum(category) == category.total = SumParsed(category.matches)

\* C1: in every period bucket of the current file's result and of main's
\* accumulator, and in the categories of part_000, the total of each
\* category is the sum of the parsed amounts of its match list.
C1_TotalIsSumOfMatches ==
    /\ \A k \in DOMAIN categoriesPerMonth : \A n \in CategoryNames :
           TotalIsSum(categoriesPerMonth[k][n])
    /\ \A k \in DOMAIN allCategories : \A n \in CategoryNames :
           TotalIsSum(allCategories[k][n])
    /\ \A n \in CategoryNames : TotalIsSum(categories[n])

\* a second file was merged into a bucket the first file had created
C1_Witness ==
    /\ script = "report" /\ pc = "loop" /\ fileNo = 2
    /\ \E k \in DOMAIN allCategories \intersect DOMAIN categoriesPerMonth :
       \E n \in CategoryNames :
           /\ Len(allCategories[k][n].matches) = 2
           /\ Len(categoriesPerMonth[k][n].matches) = 1
           /\ allCategories[k][n].total.m < 0

\* the lists a run keeps, as one number of recorded entries
RECURSIVE CountMonths(_, _)
CountMonths(cpm, keys) ==
    IF keys = {} THEN 0
    ELSE LET k == CHOOSE x \in keys : TRUE
         IN  Len(cpm[k].groceries.matches) + Len(cpm[k].fixedCosts.matches)
             + Len(cpm[k].misc.matches) + Len(cpm[k].excluded)
             + CountMonths(cpm, keys \ {k})

Recorded(cpm, cat, excl) ==
    CountMonths(cpm, DOMAIN cpm)
    + Len(cat.groceries.matches) + Len(cat.fixedCosts.matches)
    + Len(cat.misc.matches) + Len(excl)

NothingRecorded ==
    UNCHANGED <<categoriesPerMonth, categories, excludedEntries>>

\* C2: a row whose parsed amount is >= 0 is recorded nowhere and changes no
\* total, whatever its recipient matches.
C2_NonExpenseNeverRecorded ==
    [][(pc = "data" /\ parseEuro(row.amountStr).m >= 0) => NothingRecorded]_vars

\* the period key of a booking date DD.MM.YYYY, read by position
IsDate(d) ==
    /\ Len(d) = 10
    /\ d[3] = "." /\ d[6] = "."
    /\ \A i \in {1, 2, 4, 5, 7, 8, 9, 10} : d[i] \in Digits

KeyOfDate(d) == SubSeq(d, 7, 10) \o <<"-">> \o SubSeq(d, 4, 5)

BucketOf(cpm, k) == IF k \in DOMAIN cpm THEN cpm[k] ELSE NewMonth

\* the fields the script requires are present and the amount is an expense
Admitted(r) ==
    /\ ~Falsy(r.recipient) /\ ~Falsy(r.amountStr)
    /\ script = "report" => ~Falsy(r.bookingDate)
    /\ parseEuro(r.amountStr).m < 0

MatchesCategory(r) ==
    \/ SomeMatch(groceryKeywords, r.recipient)
    \/ SomeMatch(fixedCostsKeywords, r.recipient)

\* C3: an admitted row whose recipient matches an exclusion pattern and a
\* category pattern is appended to the excluded list of its period and
\* nothing else changes: no match list, no total.
C3_ExclusionPrecedence ==
    [][(/\ pc = "data"
        /\ Admitted(row)
        /\ SomeMatch(excludeKeywords, row.recipient)
        /\ MatchesCategory(row))
       => IF script = "report"
          THEN LET k == KeyOfDate(row.bookingDate)
                   b == BucketOf(categoriesPerMonth, k)
               IN  /\ DOMAIN categoriesPerMonth' =
                          DOMAIN categoriesPerMonth \union {k}
                   /\ \A j \in DOMAIN categoriesPerMonth :
                          j # k => categoriesPerMonth'[j] = categoriesPerMonth[j]
                   /\ \A n \in CategoryNames :
                          categoriesPerMonth'[k][n] = b[n]
                   /\ Len(categoriesPerMonth'[k].excluded) = Len(b.excluded) + 1
                   /\ SubSeq(categoriesPerMonth'[k].excluded, 1, Len(b.excluded))
                          = b.excluded
                   /\ LET e == categoriesPerMonth'[k].excluded[Len(b.excluded) + 1]
                      IN  /\ e.recipient = row.recipient
                          /\ e.raw = row.amountStr
                          /\ e.bookingDate = row.bookingDate
          ELSE /\ categories' = categories
               /\ Len(excludedEntries') = Len(excludedEntries) + 1
               /\ SubSeq(excludedEntries', 1, Len(excludedEntries))
                      = excludedEntries
               /\ excludedEntries'[Len(excludedEntries) + 1].recipient
                      = row.recipient]_vars

\* report.js has handled an expense to an excluded recipient that also
\* matches a category keyword: it is the last excluded entry of its month
C3_Witness ==
    /\ script = "report" /\ pc = "stream" /\ rowsRead >= 1
    /\ Admitted(row)
    /\ SomeMatch(excludeKeywords, row.recipient)
    /\ SomeMatch(groceryKeywords, row.recipient)
    /\ KeyOfDate(row.bookingDate) \in DOMAIN categoriesPerMonth
    /\ LET x == categoriesPerMonth[KeyOfDate(row.bookingDate)].excluded
       IN  x # <<>> /\ x[Len(x)].recipient = row.recipient

\* the category list of the state, by name, for either script
ListOf(cpm, cat, k, n) ==
    IF script = "report" THEN BucketOf(cpm, k)[n] ELSE cat[n]

\* C4: an admitted row that no exclusion pattern matches is appended to
\* exactly one category, the first of groceries, fixedCosts whose keywords
\* match its recipient, and to misc exactly when neither matches; the other
\* categories and the excluded list stay as they were.
C4_FirstCategoryWins ==
    [][(/\ pc = "data"
        /\ Admitted(row)
        /\ ~SomeMatch(excludeKeywords, row.recipient))
       => LET k == KeyOfDate(row.bookingDate)
              g == SomeMatch(groceryKeywords, row.recipient)
              f == SomeMatch(fixedCostsKeywords, row.recipient)
              target == IF g THEN "groceries"
                        ELSE IF f THEN "fixedCosts" ELSE "misc"
          IN  /\ \A n \in CategoryNames :
                  LET old == ListOf(categoriesPerMonth, categories, k, n)
                      new == ListOf(categoriesPerMonth', categories', k, n)
                  IN  IF n = target
                      THEN /\ Len(new.matches) = Len(old.matches) + 1
                           /\ SubSeq(new.matches, 1, Len(old.matches))
                                  = old.matches
                           /\ new.matches[Len(new.matches)].recipient
                                  = row.recipient
                           /\ new.matches[Len(new.matches)].raw
                                  = row.amountStr
                      ELSE new = old
              /\ Recorded(categoriesPerMonth', categories', excludedEntries')
                     = Recorded(categoriesPerMonth, categories,
                                excludedEntries) + 1]_vars

\* a recipient that matches a groceries keyword and a fixedCosts keyword was
\* handled: it is in groceries, and fixedCosts is empty
C4_Witness ==
    /\ pc = "stream" /\ rowsRead = 1
    /\ Admitted(row)
    /\ SomeMatch(groceryKeywords, row.recipient)
    /\ SomeMatch(fixedCostsKeywords, row.recipient)
    /\ LET k == KeyOfDate(row.bookingDate)
           g == ListOf(categoriesPerMonth, categories, k, "groceries")
           f == ListOf(categoriesPerMonth, categories, k, "fixedCosts")
       IN  /\ Len(g.matches) = 1
           /\ g.matches[1].recipient = row.recipient
           /\ f.matches = <<>>

\* C5: a file without a header line does not end the batch: when the run
\* is over, it ended regularly and the loop has taken every file.
C5_BatchSurvivesMissingHeader ==
    pc \in {"done", "crashed"} => (pc = "done" /\ fileNo = MaxFiles)

\* C6: the located header is the first line that contains every required
\* column name of the format, and there is none when the call throws.
C6_HeaderHasAllNames ==
    /\ pc = "located" => headerIndex = FirstLineWithAllNames(lines)
    /\ pc = "thrown" => FirstLineWithAllNames(lines) = 0 - 1

\* C7: merging a file's result into a bucket of the same period appends the
\* file's entries after the bucket's, list by list, and adds the totals.
C7_MergeConcatenates ==
    [][(script = "report" /\ pc = "stream" /\ pc' = "loop")
       => /\ DOMAIN allCategories' =
                 DOMAIN allCategories \union DOMAIN categoriesPerMonth
          /\ \A k \in DOMAIN allCategories \intersect DOMAIN categoriesPerMonth :
                 /\ \A n \in CategoryNames :
                        /\ allCategories'[k][n].matches =
                               allCategories[k][n].matches
                               \o categoriesPerMonth[k][n].matches
                        /\ allCategories'[k][n].total =
                               Plus(allCategories[k][n].total,
                                    categoriesPerMonth[k][n].total)
                 /\ allCategories'[k].excluded =
                        allCategories[k].excluded
                        \o categoriesPerMonth[k].excluded]_vars

\* two files of the same month with groceries totals -10 and -5 are merged
\* to -15, the first file's match before the second's
C7_Witness ==
    /\ script = "report" /\ pc = "loop" /\ fileNo = 2
    /\ \E k \in DOMAIN allCategories \intersect DOMAIN categoriesPerMonth :
           /\ categoriesPerMonth[k].groceries.total = Dec(0 - 5, 0)
           /\ Len(categoriesPerMonth[k].groceries.matches) = 1
           /\ allCategories[k].groceries.total = Dec(0 - 15, 0)
           /\ Len(allCategories[k].groceries.matches) = 2
           /\ allCategories[k].groceries.matches[1].parsed = Dec(0 - 10, 0)
           /\ allCategories[k].groceries.matches[2] =
                  categoriesPerMonth[k].groceries.matches[1]

ExactlyOneRecorded ==
    Recorded(categoriesPerMonth', categories', excludedEntries')
        = Recorded(categoriesPerMonth, categories, excludedEntries) + 1

\* C8, as claimed: a row is skipped exactly when its recipient or its raw
\* amount is absent; a row with both and a negative amount is recorded in
\* exactly one place.
C8_SkippedIffRecipientOrAmountAbsent ==
    [][pc = "data"
       => /\ (Falsy(row.recipient) \/ Falsy(row.amountStr)) => NothingRecorded
          /\ (/\ ~Falsy(row.recipient) /\ ~Falsy(row.amountStr)
              /\ parseEuro(row.amountStr).m < 0) => ExactlyOneRecorded]_vars

\* the fields a script requires of a row
MissingRequired(r) ==
    \/ Falsy(r.recipient)
    \/ Falsy(r.amountStr)
    \/ script = "report" /\ Falsy(r.bookingDate)

\* C8, amended: report.js also requires the booking date.  A row missing a
\* required field is recorded nowhere; a row with every required field and
\* a negative amount is recorded in exactly one place.
C8_SkippedIffRequiredFieldAbsent ==
    [][pc = "data"
       => /\ MissingRequired(row) => NothingRecorded
          /\ (~MissingRequired(row) /\ parseEuro(row.amountStr).m < 0)
                 => ExactlyOneRecorded]_vars

\* report.js has handled an expense with a recipient and no booking date:
\* nothing is recorded
C8_Witness ==
    /\ script = "report" /\ pc = "stream" /\ rowsRead = 1
    /\ ~Falsy(row.recipient) /\ ~Falsy(row.amountStr)
    /\ Falsy(row.bookingDate)
    /\ parseEuro(row.amountStr).m < 0
    /\ categoriesPerMonth = <<>>

EntriesOf(bucket) ==
    { bucket.groceries.matches[i] : i \in 1..Len(bucket.groceries.matches) }
    \union
    { bucket.fixedCosts.matches[i] : i \in 1..Len(bucket.fixedCosts.matches) }
    \union
    { bucket.misc.matches[i] : i \in 1..Len(bucket.misc.matches) }

DatesOf(bucket) ==
    { e.bookingDate : e \in EntriesOf(bucket) }
    \union { bucket.excluded[i].bookingDate : i \in 1..Len(bucket.excluded) }

DatesAgree(cpm) ==
    \A k \in DOMAIN cpm : \A d \in DatesOf(cpm[k]) :
        IsDate(d) /\ KeyOfDate(d) = k

\* C9: every entry of the bucket with key K, in a match list or in the
\* excluded list, has a booking date DD.MM.YYYY with YYYY-MM = K.
C9_BucketKeyIsBookingMonth ==
    /\ DatesAgree(categoriesPerMonth)
    /\ DatesAgree(allCategories)
    /\ (script = "report" /\ pc = "done")
           => DatesAgree(output[<<"monatsbericht.xlsx">>])

\* one file has rows of two months: two buckets, each with its own row
C9_Witness ==
    /\ script = "report" /\ pc = "stream"
    /\ Cardinality(DOMAIN categoriesPerMonth) = 2
    /\ \A k \in DOMAIN categoriesPerMonth : DatesOf(categoriesPerMonth[k]) # {}

NoDigit(v) == \A i \in 1..Len(v) : v[i] \notin Digits

\* C10: parseEuro returns -12.34, 1234.56, 344 and -0.5 for the four
\* documented amount strings, and 0 for an absent or empty argument and for
\* every string without a digit.
C10_ParseEuro ==
    pc = "returned" =>
        /\ value = <<"-", "1", "2", ",", "3", "4", " ", "€">>
               => number = [m |-> 0 - 1234, e |-> 2]
        /\ value = <<"1", ".", "2", "3", "4", ",", "5", "6">>
               => number = [m |-> 123456, e |-> 2]
        /\ value = <<"3", "4", "4">> => number = [m |-> 344, e |-> 0]
        /\ value = <<"-", "0", ",", "5", "0">> => number = [m |-> 0 - 5, e |-> 1]
        /\ (Falsy(value) \/ NoDigit(value)) => number = [m |-> 0, e |-> 0]

C10_Witness ==
    /\ pc = "returned"
    /\ value = <<"1", ".", "2", "3", "4", ",", "5", "6">>
    /\ number = [m |-> 123456, e |-> 2]

\* C11: a file in which no line contains every required column name of its
\* format makes the call fail, and the failing call changes nothing: no
\* bucket, match list, excluded list, total or report.
C11_MissingHeaderFailsClean ==
    [][(pc = "read" /\ FirstLineWithAllNames(lines) = 0 - 1)
       => /\ pc' \in {"crashed", "loop"}
          /\ UNCHANGED <<categoriesPerMonth, allCategories, categories,
                         excludedEntries, output>>]_vars

\* the file and the row of the run an entry comes from, read from its
\* amount "-f,n"
FileOf(entry) == DigitVal(entry.raw[2])

RowOf(entry) == DigitVal(entry.raw[4])

Earlier(a, b) ==
    \/ FileOf(a) < FileOf(b)
    \/ FileOf(a) = FileOf(b) /\ RowOf(a) < RowOf(b)

InProcessingOrder(list) ==
    \A i, j \in 1..Len(list) : i < j => Earlier(list[i], list[j])

BucketsInOrder(cpm) ==
    \A k \in DOMAIN cpm :
        /\ \A n \in CategoryNames : InProcessingOrder(cpm[k][n].matches)
        /\ InProcessingOrder(cpm[k].excluded)

\* C12: every match list and excluded list, of the file being read, of the
\* merged result and of the written report, holds its entries in the order
\* (file, row) in which the rows were processed.
C12_ListsInProcessingOrder ==
    /\ script = "report" =>
           /\ BucketsInOrder(categoriesPerMonth)
           /\ BucketsInOrder(allCategories)
           /\ \A f \in DOMAIN output : BucketsInOrder(output[f])
    /\ script = "folder" =>
           /\ \A n \in CategoryNames : InProcessingOrder(categories[n].matches)
           /\ InProcessingOrder(excludedEntries)
           /\ \A f \in DOMAIN output :
                  /\ \A n \in CategoryNames :
                         InProcessingOrder(output[f].categories[n].matches)
                  /\ InProcessingOrder(output[f].excluded)

\* the written report has a match list of three entries, rows 1 and 2 of
\* the first file and row 3 of the second
C12_Witness ==
    /\ script = "report" /\ pc = "done"
    /\ \E f \in DOMAIN output : \E k \in DOMAIN output[f] :
           \E n \in CategoryNames :
               LET list == output[f][k][n].matches
               IN  /\ Len(list) = 3
                   /\ FileOf(list[1]) = 1 /\ RowOf(list[1]) = 1
                   /\ FileOf(list[2]) = 1 /\ RowOf(list[2]) = 2
                   /\ FileOf(list[3]) = 2 /\ RowOf(list[3]) = 3

====
